---------------------------- MODULE Spec2Model ----------------------------
(***************************************************************************)
(* Model of the book service of src/index.js: an in-memory list of books   *)
(* behind an express application, with a fixed-window rate limiter on      *)
(* /api/books, the requireAuth / requireAdmin guards and the seven route   *)
(* handlers.  Requests are handled one at a time (node's event loop, all   *)
(* handlers synchronous), so one action is one whole request.              *)
(*                                                                         *)
(* JavaScript strings are sequences of one-character strings, so that      *)
(* toLowerCase, parseInt and includes are computed, not assumed.           *)
(***************************************************************************)
EXTENDS Integers, Sequences, FiniteSets, TLC

VARIABLES books,      \* the Store: sequence of [id, title, author]
          hits,       \* rate limiter: requests counted per client in its window
          res,        \* the response to the last request
          assigned    \* history: every id a Book was ever given

vars == <<books, hits, res, assigned>>

-----------------------------------------------------------------------------
(* Bounds of the model                                                     *)

MaxBooks == 2       \* creates are cut off when the Store holds this many
MaxHits == 1        \* Spec: a client sends at most this many requests per window
MaxBurst == 17      \* SpecLimiter: a client sends at most this many per window

(* Program constants                                                       *)

max == 15           \* limiter: max requests per window

-----------------------------------------------------------------------------
(* JavaScript values: strings, numbers, NaN and undefined                  *)

JStr(s) == [type |-> "string", chars |-> s, num |-> 0]
JNum(n) == [type |-> "number", chars |-> <<>>, num |-> n]
NaN == [type |-> "NaN", chars |-> <<>>, num |-> 0]
Undefined == [type |-> "undefined", chars |-> <<>>, num |-> 0]

\* ToBoolean: "", 0, NaN and undefined are falsy
Truthy(v) ==
    CASE v.type = "string" -> v.chars # <<>>
      [] v.type = "number" -> v.num # 0
      [] OTHER -> FALSE

\* x === y (NaN is not equal to itself)
StrictEq(x, y) == x.type # "NaN" /\ y.type # "NaN" /\ x = y

\* x || y
Or(x, y) == IF Truthy(x) THEN x ELSE y

UpperAlpha == <<"A","B","C","D","E","F","G","H","I","J","K","L","M",
                "N","O","P","Q","R","S","T","U","V","W","X","Y","Z">>
LowerAlpha == <<"a","b","c","d","e","f","g","h","i","j","k","l","m",
                "n","o","p","q","r","s","t","u","v","w","x","y","z">>

\* The lower-case letter of each upper-case letter
LowerOf ==
    [u \in {UpperAlpha[i] : i \in 1..26} |->
        LowerAlpha[CHOOSE i \in 1..26 : UpperAlpha[i] = u]]

LowerChar(c) == IF c \in DOMAIN LowerOf THEN LowerOf[c] ELSE c

\* String.prototype.toLowerCase on the characters of a string
toLowerCase(s) == [i \in 1..Len(s) |-> LowerChar(s[i])]

\* v.toLowerCase() throws a TypeError unless v is a string
HasToLowerCase(v) == v.type = "string"

\* String.prototype.includes
includes(s, t) ==
    \E i \in 0..(Len(s) - Len(t)) : SubSeq(s, i + 1, i + Len(t)) = t

Digits == <<"0","1","2","3","4","5","6","7","8","9">>
IsDigit(c) == \E d \in 1..10 : Digits[d] = c
DigitVal(c) == (CHOOSE d \in 1..10 : Digits[d] = c) - 1

RECURSIVE DigitPrefix(_)
DigitPrefix(s) ==
    IF s # <<>> /\ IsDigit(Head(s)) THEN <<Head(s)>> \o DigitPrefix(Tail(s))
    ELSE <<>>

RECURSIVE Decimal(_)
Decimal(ds) ==
    IF ds = <<>> THEN 0
    ELSE 10 * Decimal(SubSeq(ds, 1, Len(ds) - 1)) + DigitVal(ds[Len(ds)])

RECURSIVE TrimStart(_)
TrimStart(s) == IF s # <<>> /\ Head(s) = " " THEN TrimStart(Tail(s)) ELSE s

\* parseInt(v) with no radix: leading blanks, an optional sign, then the
\* longest run of decimal digits; NaN when there is none
parseInt(v) ==
    IF v.type = "number" THEN v
    ELSE IF v.type # "string" THEN NaN
    ELSE LET t == TrimStart(v.chars)
             neg == t # <<>> /\ Head(t) = "-"
             u == IF t # <<>> /\ Head(t) \in {"-", "+"} THEN Tail(t) ELSE t
             ds == DigitPrefix(u)
         IN IF ds = <<>> THEN NaN
            ELSE JNum(IF neg THEN 0 - Decimal(ds) ELSE Decimal(ds))

\* Arithmetic of (page - 1) * limit and start + limit: NaN is contagious
Minus(x, y) == IF x.type = "NaN" \/ y.type = "NaN" THEN NaN ELSE JNum(x.num - y.num)
Plus(x, y) == IF x.type = "NaN" \/ y.type = "NaN" THEN NaN ELSE JNum(x.num + y.num)
Times(x, y) == IF x.type = "NaN" \/ y.type = "NaN" THEN NaN ELSE JNum(x.num * y.num)

\* The relative index of Array.prototype.slice: NaN is 0, a negative index
\* counts from the end, and the result is clamped to 0..len
RelIndex(x, len) ==
    IF x.type = "NaN" THEN 0
    ELSE IF x.num < 0 THEN (IF len + x.num < 0 THEN 0 ELSE len + x.num)
    ELSE IF x.num > len THEN len ELSE x.num

\* Array.prototype.slice(start, end): the elements at 0-based positions
\* start .. end - 1
slice(arr, start, end) ==
    SubSeq(arr, RelIndex(start, Len(arr)) + 1, RelIndex(end, Len(arr)))

-----------------------------------------------------------------------------
(* The strings the model's requests and books are made of                  *)

S1984 == <<"1","9","8","4">>
GeorgeOrwell == <<"G","e","o","r","g","e"," ","O","r","w","e","l","l">>
TheHobbit == <<"T","h","e"," ","H","o","b","b","i","t">>
Tolkien == <<"J",".","R",".","R","."," ","T","o","l","k","i","e","n">>
theHobbitLc == <<"t","h","e"," ","h","o","b","b","i","t">>
tolkienLc == <<"j",".","r",".","r","."," ","t","o","l","k","i","e","n">>
Dune == <<"D","u","n","e">>

AdminToken == <<"B","e","a","r","e","r"," ","a","d","m","i","n","-","t","o","k","e","n">>
UserToken == <<"B","e","a","r","e","r"," ","u","s","e","r","-","t","o","k","e","n">>

-----------------------------------------------------------------------------
(* Responses: res.status(n).json(x) and res.status(n).send()               *)

NoResponse == [status |-> 0, kind |-> "none", error |-> "", body |-> <<>>]
JsonError(status, msg) == [status |-> status, kind |-> "error", error |-> msg, body |-> <<>>]
JsonBook(status, book) == [status |-> status, kind |-> "object", error |-> "", body |-> <<book>>]
JsonArray(status, arr) == [status |-> status, kind |-> "array", error |-> "", body |-> arr]
SendEmpty(status) == [status |-> status, kind |-> "empty", error |-> "", body |-> <<>>]

\* What a handler did: the Store it leaves and the response it sent
Outcome(bks, r) == [books |-> bks, res |-> r]

\* The global error handler: an exception thrown by a handler becomes a 500
ErrorHandler(bks) ==
    Outcome(bks, JsonError(500, "Something went wrong on the server."))

-----------------------------------------------------------------------------
(* Authentication middleware                                               *)

\* requireAuth: 401 unless the authorization header is truthy
requireAuth(bks, token, next) ==
    IF ~Truthy(token)
    THEN Outcome(bks, JsonError(401, "Unauthorized. No token provided."))
    ELSE next

\* Mutant of requireAdmin: tests the header's presence instead of its value
requireAdminAnyToken(bks, token, next) ==
    IF ~Truthy(token)
    THEN Outcome(bks, JsonError(403, "Forbidden. Admin access required."))
    ELSE next

\* requireAdmin: 403 unless the header is exactly 'Bearer admin-token'
requireAdmin(bks, token, next) ==
    IF ~StrictEq(token, JStr(AdminToken))
    THEN Outcome(bks, JsonError(403, "Forbidden. Admin access required."))
    ELSE next

-----------------------------------------------------------------------------
(* Book data                                                               *)

Book(id, title, author) == [id |-> id, title |-> title, author |-> author]

InitialBooks ==
    << Book(1, JStr(S1984), JStr(GeorgeOrwell)),
       Book(2, JStr(TheHobbit), JStr(Tolkien)) >>

\* books.findIndex(b => b.id === id), 0 standing for -1 (positions are 1-based)
findIndex(bks, id) ==
    IF \E i \in 1..Len(bks) : StrictEq(JNum(bks[i].id), id)
    THEN CHOOSE i \in 1..Len(bks) :
            /\ StrictEq(JNum(bks[i].id), id)
            /\ \A j \in 1..(i - 1) : ~StrictEq(JNum(bks[j].id), id)
    ELSE 0

-----------------------------------------------------------------------------
(* Route handlers, each as the Outcome it produces on the Store bks        *)

\* GET /api/books?page=&limit=
GetBooks(bks, qpage, qlimit) ==
    LET page == parseInt(Or(qpage, JStr(<<"1">>)))
        limit == parseInt(Or(qlimit, JStr(<<"1","0">>)))
        start == Times(Minus(page, JNum(1)), limit)
        paginated == slice(bks, start, Plus(start, limit))
    IN Outcome(bks, JsonArray(200, paginated))

\* The callback of books.filter in the search handler, on one book: both
\* matchesTitle and matchesAuthor are computed before they are combined
SearchThrows(b, title, author) ==
    \/ Truthy(title) /\ (~HasToLowerCase(b.title) \/ ~HasToLowerCase(title))
    \/ Truthy(author) /\ (~HasToLowerCase(b.author) \/ ~HasToLowerCase(author))

SearchMatches(b, title, author) ==
    /\ Truthy(title) => includes(toLowerCase(b.title.chars), toLowerCase(title.chars))
    /\ Truthy(author) => includes(toLowerCase(b.author.chars), toLowerCase(author.chars))

RECURSIVE filter(_, _, _)
filter(bks, title, author) ==
    IF bks = <<>> THEN <<>>
    ELSE (IF SearchMatches(Head(bks), title, author) THEN <<Head(bks)>> ELSE <<>>)
         \o filter(Tail(bks), title, author)

\* GET /api/books/search?title=&author=
SearchBooks(bks, title, author) ==
    IF ~Truthy(title) /\ ~Truthy(author)
    THEN Outcome(bks, JsonError(400, "Please provide at least a title or author for search"))
    ELSE IF \E i \in 1..Len(bks) : SearchThrows(bks[i], title, author)
    THEN ErrorHandler(bks)
    ELSE LET filteredBooks == filter(bks, title, author)
         IN IF Len(filteredBooks) = 0
            THEN Outcome(bks, JsonError(404, "Books not found for search"))
            ELSE Outcome(bks, JsonArray(200, filteredBooks))

\* GET /api/books/:id
GetBook(bks, pathId) ==
    LET i == findIndex(bks, parseInt(JStr(pathId)))
    IN IF i = 0 THEN Outcome(bks, JsonError(404, "Book not found"))
       ELSE Outcome(bks, JsonBook(200, bks[i]))

\* The callback of books.find in the create handler, on one book:
\* "throw" when a toLowerCase is called on a value that is no string,
\* otherwise whether title and author both match.  && evaluates left to
\* right and stops at the first false operand.
DuplicateTest(b, title, author) ==
    IF ~HasToLowerCase(b.title) \/ ~HasToLowerCase(title) THEN "throw"
    ELSE IF toLowerCase(b.title.chars) # toLowerCase(title.chars) THEN "no"
    ELSE IF ~HasToLowerCase(b.author) \/ ~HasToLowerCase(author) THEN "throw"
    ELSE IF toLowerCase(b.author.chars) = toLowerCase(author.chars) THEN "match"
    ELSE "no"

\* books.find(...) of the create handler: the verdict on the first book
\* whose test does not answer "no"; "no" when there is none
RECURSIVE FindDuplicate(_, _, _)
FindDuplicate(bks, title, author) ==
    IF bks = <<>> THEN "no"
    ELSE LET verdict == DuplicateTest(Head(bks), title, author)
         IN IF verdict # "no" THEN verdict
            ELSE FindDuplicate(Tail(bks), title, author)

\* Mutant of NewId: books.length, without the + 1
NewIdLength(bks) == Len(bks)

\* The id given to a new book
NewId(bks) == Len(bks) + 1

\* POST /api/books (after requireAuth)
PostBook(bks, body) ==
    IF Truthy(body.id)
    THEN Outcome(bks, JsonError(400, "ID must not be provided when creating a book"))
    ELSE IF ~Truthy(body.title) \/ ~Truthy(body.author)
    THEN Outcome(bks, JsonError(400, "Both title and author are required."))
    ELSE LET duplicate == FindDuplicate(bks, body.title, body.author)
         IN IF duplicate = "throw" THEN ErrorHandler(bks)
            ELSE IF duplicate = "match"
            THEN Outcome(bks, JsonError(409, "A book with the same title and author already exists"))
            ELSE LET newBook == Book(NewId(bks), body.title, body.author)
                 IN Outcome(Append(bks, newBook), JsonBook(201, newBook))

\* Mutant of Updated: the body's fields are stored whatever they are
UpdatedOverwrite(book, body) ==
    [book EXCEPT !.title = body.title, !.author = body.author]

\* The book as the update handler leaves it
Updated(book, body) ==
    [book EXCEPT !.title = Or(body.title, book.title),
                 !.author = Or(body.author, book.author)]

\* PUT /api/books/:id (after requireAuth)
PutBook(bks, pathId, body) ==
    LET paramId == parseInt(JStr(pathId))
        i == findIndex(bks, paramId)
    IN IF Truthy(body.id) /\ ~StrictEq(body.id, paramId)
       THEN Outcome(bks, JsonError(400, "Updating book ID is not allowed."))
       ELSE IF i = 0 THEN Outcome(bks, JsonError(404, "Book not found"))
       ELSE LET book == Updated(bks[i], body)
            IN Outcome([bks EXCEPT ![i] = book], JsonBook(200, book))

\* Mutant of ResetBooks: books.length = 1
ResetBooksKeepFirst(bks) == Outcome(SubSeq(bks, 1, 1), SendEmpty(204))

\* DELETE /api/books/reset (after requireAuth, requireAdmin)
ResetBooks(bks) == Outcome(<<>>, SendEmpty(204))

\* books.splice(index, 1), index 1-based
splice1(bks, index) == SubSeq(bks, 1, index - 1) \o SubSeq(bks, index + 1, Len(bks))

\* Mutant of DeleteBook: no test for index -1, so that splice(-1, 1) removes
\* the last book
DeleteBookUnchecked(bks, pathId) ==
    LET index == findIndex(bks, parseInt(JStr(pathId)))
    IN Outcome(splice1(bks, IF index = 0 THEN Len(bks) ELSE index), SendEmpty(204))

\* Mutant of DeleteBook: the splice comes before the test for index -1, and
\* splice(-1, 1) removes the last book
DeleteBookSpliceFirst(bks, pathId) ==
    LET index == findIndex(bks, parseInt(JStr(pathId)))
    IN IF index = 0
       THEN Outcome(splice1(bks, Len(bks)), JsonError(404, "Book not found"))
       ELSE Outcome(splice1(bks, index), SendEmpty(204))

\* DELETE /api/books/:id (after requireAuth, requireAdmin)
DeleteBook(bks, pathId) ==
    LET index == findIndex(bks, parseInt(JStr(pathId)))
    IN IF index = 0 THEN Outcome(bks, JsonError(404, "Book not found"))
       ELSE Outcome(splice1(bks, index), SendEmpty(204))

-----------------------------------------------------------------------------
(* Rate limiting: rateLimit({windowMs: 60 * 1000, max: 15}) mounted on     *)
(* /api/books.  The limiter counts every request of a client in the        *)
(* client's current window, the rejected ones included; a window opens     *)
(* with the client's first request and ends windowMs later, when the       *)
(* client's count is dropped.  The clock is not modelled: the end of a     *)
(* client's window is an event that may happen whenever a window is open.  *)

Clients == {"A", "B"}

TooManyRequests == JsonError(429, "Too many requests. Slow down.")

\* The limiter counts the request of client c
Increment(c) ==
    /\ hits' = [hits EXCEPT ![c] = @ + 1]

\* Mutant of OverLimit: one request too many is let through
OverLimitLate(c) == hits[c] + 1 > max + 1

\* Mutant of OverLimit: one quota for all clients together
OverLimitAnyClient(c) == \E d \in Clients : hits[d] + 1 > max

\* Whether the request now counted is over the limit
OverLimit(c) == hits[c] + 1 > max

\* What becomes of a request of client c: the limiter's own response when
\* the request is over the limit, else what the route (guards and handler)
\* does with it, which is next
limiterOutcome(c, next) ==
    IF OverLimit(c) THEN Outcome(books, TooManyRequests) ELSE next

\* One request of client c through the limiter
limiter(c, next) ==
    /\ Increment(c)
    /\ LET out == limiterOutcome(c, next)
       IN /\ books' = out.books
          /\ res' = out.res
          /\ assigned' = IF out.res.status = 201
                         THEN assigned \cup {out.res.body[1].id}
                         ELSE assigned

\* windowMs have passed since the window of client c opened: its count
\* is dropped
WindowElapsed(c) ==
    /\ hits[c] > 0
    /\ hits' = [hits EXCEPT ![c] = 0]
    /\ UNCHANGED <<books, res, assigned>>

-----------------------------------------------------------------------------
(* The requests the model sends                                            *)

Tokens == {Undefined, JStr(<<>>), JStr(UserToken), JStr(AdminToken)}

PathIds == { <<"1">>, <<"2">>, <<"3">>, <<"x">> }

Body(id, title, author) == [id |-> id, title |-> title, author |-> author]

\* JSON bodies: no field at all; the title and author of the second
\* initial book in lower case, alone and with an id that is 0 or 2; a new
\* title; an empty title; a title that is a number
Bodies ==
    { Body(Undefined, Undefined, Undefined),
      Body(Undefined, JStr(theHobbitLc), JStr(tolkienLc)),
      Body(JNum(0), JStr(theHobbitLc), JStr(tolkienLc)),
      Body(JNum(2), JStr(theHobbitLc), JStr(tolkienLc)),
      Body(Undefined, JStr(Dune), JStr(tolkienLc)),
      Body(Undefined, JStr(<<>>), JStr(tolkienLc)),
      Body(Undefined, JNum(5), JStr(tolkienLc)) }

Pages == {Undefined, JStr(<<"2">>), JStr(<<"0">>), JStr(<<"-", "1">>), JStr(<<"x">>)}
Limits == {Undefined, JStr(<<"1">>), JStr(<<"-", "1">>)}

Queries == {Undefined, JStr(<<>>), JStr(<<"h","o","b","b","i","t">>), JStr(<<"O","R">>)}

-----------------------------------------------------------------------------
(* The routes: guards, then handler                                        *)

\* app.post('/api/books', requireAuth, ...)
CreateRoute(bks, token, body) == requireAuth(bks, token, PostBook(bks, body))

\* app.put('/api/books/:id', requireAuth, ...)
UpdateRoute(bks, token, pathId, body) ==
    requireAuth(bks, token, PutBook(bks, pathId, body))

\* app.delete('/api/books/reset', requireAuth, requireAdmin, ...)
DeleteAllRoute(bks, token) ==
    requireAuth(bks, token, requireAdmin(bks, token, ResetBooks(bks)))

\* Mutant of DeleteOneRoute: the handler looks the Book up before the guards
\* have run
DeleteOneRouteLookupFirst(bks, token, pathId) ==
    IF findIndex(bks, parseInt(JStr(pathId))) = 0
    THEN Outcome(bks, JsonError(404, "Book not found"))
    ELSE requireAuth(bks, token, requireAdmin(bks, token, DeleteBook(bks, pathId)))

\* app.delete('/api/books/:id', requireAuth, requireAdmin, ...)
DeleteOneRoute(bks, token, pathId) ==
    requireAuth(bks, token, requireAdmin(bks, token, DeleteBook(bks, pathId)))

(* One action per operation: a request of client c goes through the       *)
(* limiter and then through its route                                      *)

List(c, qpage, qlimit) == limiter(c, GetBooks(books, qpage, qlimit))

Search(c, title, author) == limiter(c, SearchBooks(books, title, author))

Get(c, pathId) == limiter(c, GetBook(books, pathId))

Create(c, token, body) == limiter(c, CreateRoute(books, token, body))

Update(c, token, pathId, body) == limiter(c, UpdateRoute(books, token, pathId, body))

DeleteAll(c, token) == limiter(c, DeleteAllRoute(books, token))

DeleteOne(c, token, pathId) == limiter(c, DeleteOneRoute(books, token, pathId))

Init ==
    /\ books = InitialBooks
    /\ hits = [c \in Clients |-> 0]
    /\ res = NoResponse
    /\ assigned = {1, 2}

\* A successful create is cut off when it would make the Store longer than
\* MaxBooks, to keep the Store finite
Bounded == Len(books') <= MaxBooks

\* Spec: one client that sends at most MaxHits requests per window, so the
\* limiter lets every request through; every route with all its inputs
Next ==
    \/ \E p \in Pages, l \in Limits : hits["A"] < MaxHits /\ List("A", p, l)
    \/ \E t \in Queries, a \in Queries : hits["A"] < MaxHits /\ Search("A", t, a)
    \/ \E i \in PathIds : hits["A"] < MaxHits /\ Get("A", i)
    \/ \E t \in Tokens, b \in Bodies :
            hits["A"] < MaxHits /\ Create("A", t, b) /\ Bounded
    \/ \E t \in Tokens, i \in PathIds, b \in Bodies :
            hits["A"] < MaxHits /\ Update("A", t, i, b)
    \/ \E t \in Tokens : hits["A"] < MaxHits /\ DeleteAll("A", t)
    \/ \E t \in Tokens, i \in PathIds : hits["A"] < MaxHits /\ DeleteOne("A", t, i)
    \/ WindowElapsed("A")

Spec == Init /\ [][Next]_vars

\* SpecLimiter: two clients that send up to MaxBurst requests per window,
\* to every route, with few inputs per route (among them an update that
\* stores a title that is a number)
BurstTokens == {Undefined, JStr(UserToken), JStr(AdminToken)}
BurstBody == Body(Undefined, JStr(theHobbitLc), JStr(tolkienLc))
BurstBodies == {BurstBody, Body(Undefined, JNum(5), JStr(tolkienLc))}

NextLimiter ==
    \/ \E c \in Clients : hits[c] < MaxBurst /\ List(c, Undefined, Undefined)
    \/ \E c \in Clients :
            hits[c] < MaxBurst /\ Search(c, JStr(<<"h","o","b","b","i","t">>), Undefined)
    \/ \E c \in Clients : hits[c] < MaxBurst /\ Get(c, <<"1">>)
    \/ \E c \in Clients, t \in BurstTokens :
            hits[c] < MaxBurst /\ Create(c, t, BurstBody) /\ Bounded
    \/ \E c \in Clients, t \in BurstTokens, b \in BurstBodies :
            hits[c] < MaxBurst /\ Update(c, t, <<"1">>, b)
    \/ \E c \in Clients, t \in BurstTokens : hits[c] < MaxBurst /\ DeleteAll(c, t)
    \/ \E c \in Clients, t \in BurstTokens :
            hits[c] < MaxBurst /\ DeleteOne(c, t, <<"2">>)
    \/ \E c \in Clients : WindowElapsed(c)

SpecLimiter == Init /\ [][NextLimiter]_vars

-----------------------------------------------------------------------------
(* Vocabulary of the properties                                            *)

\* Client c sent the request of this step
RequestBy(c) == hits'[c] = hits[c] + 1

\* The id a path segment addresses
PathId(pathId) == parseInt(JStr(pathId))

\* No Book of the Store has the id the path addresses
NoSuchBook(pathId) == \A i \in 1..Len(books) : JNum(books[i].id) # PathId(pathId)

\* Two values are strings that are equal up to case
SameIgnoringCase(x, y) ==
    /\ x.type = "string" /\ y.type = "string"
    /\ toLowerCase(x.chars) = toLowerCase(y.chars)

\* The Store holds a Book with the title and author of the body, up to case
HoldsDuplicateOf(body) ==
    \E i \in 1..Len(books) :
        /\ SameIgnoringCase(books[i].title, body.title)
        /\ SameIgnoringCase(books[i].author, body.author)

\* The request carries a credential / the admin credential
Credential(token) == token # Undefined /\ token # JStr(<<>>)
AdminCredential(token) == token = JStr(AdminToken)

-----------------------------------------------------------------------------
(* C1: in every reachable state no two Books of the Store have the same    *)
(* id.                                                                     *)
C1_UniqueIds ==
    \A i, j \in 1..Len(books) : i # j => books[i].id # books[j].id

(* C2: the id of the Book returned by a successful create (201) is         *)
(* strictly greater than every id assigned to a Book before that create,   *)
(* the ids of deleted Books included.                                      *)
C2_FreshId ==
    [][\A c \in Clients :
          (RequestBy(c) /\ res'.status = 201)
              => \A id \in assigned : res'.body[1].id > id]_vars

(* C3: whenever the Store holds a Book whose title and author equal, up to *)
(* case, those of an authenticated create request, the create is answered  *)
(* 409 and the Store is left unchanged.  (Stated for bodies without an id  *)
(* field, the case the claim's second half describes.)                     *)
C3_DuplicateIs409 ==
    \A t \in Tokens, b \in Bodies :
        (Truthy(t) /\ b.id = Undefined /\ HoldsDuplicateOf(b))
            => LET out == CreateRoute(books, t, b)
               IN out.res.status = 409 /\ out.books = books

\* The 404 of the id routes, with the Store as it was
NotFound == Outcome(books, JsonError(404, "Book not found"))

(* C4 as stated: for every id that no Book of the Store has, GET, PUT and  *)
(* DELETE by that id, sent with the credentials the route requires, are    *)
(* answered 404 for every request body, and the Store is unchanged.        *)
C4_AbsentIdIs404 ==
    \A p \in PathIds :
        NoSuchBook(p) =>
            /\ GetBook(books, p) = NotFound
            /\ \A t \in Tokens, b \in Bodies :
                   Credential(t) => UpdateRoute(books, t, p, b) = NotFound
            /\ DeleteOneRoute(books, JStr(AdminToken), p) = NotFound

(* C4 as amended: the same, for a PUT whose body has no id, a falsy id (0) *)
(* or the id of the path; a PUT whose body carries another id is answered  *)
(* 400; in both cases the Store is unchanged.                              *)
C4_AbsentIdIs404UnlessBodyId ==
    \A p \in PathIds :
        NoSuchBook(p) =>
            /\ GetBook(books, p) = NotFound
            /\ \A t \in Tokens, b \in Bodies :
                   Credential(t) =>
                       LET out == UpdateRoute(books, t, p, b)
                       IN IF b.id \in {Undefined, JNum(0)} \/ b.id = PathId(p)
                          THEN out = NotFound
                          ELSE out.res.status = 400 /\ out.books = books
            /\ DeleteOneRoute(books, JStr(AdminToken), p) = NotFound

\* A request by an id that no Book has was answered 404 and books remain
C4_Witness ==
    /\ res = JsonError(404, "Book not found")
    /\ books # <<>>

\* The write routes answer the token t with 401; the Store is unchanged
WritesAnswer401(t) ==
    /\ \A b \in Bodies :
           CreateRoute(books, t, b).res.status = 401
    /\ \A p \in PathIds, b \in Bodies :
           UpdateRoute(books, t, p, b).res.status = 401

\* The delete routes answer the token t with this status
DeletesAnswer(t, status) ==
    /\ DeleteAllRoute(books, t).res.status = status
    /\ \A p \in PathIds : DeleteOneRoute(books, t, p).res.status = status

\* No route changes the Store for a request without credential, and only
\* the delete routes with the admin credential remove Books from it
OnlyCredentialsChangeStore ==
    /\ \A t \in Tokens, b \in Bodies :
           LET after == CreateRoute(books, t, b).books
           IN IF Credential(t) THEN Len(after) >= Len(books) ELSE after = books
    /\ \A t \in Tokens, p \in PathIds, b \in Bodies :
           LET after == UpdateRoute(books, t, p, b).books
           IN IF Credential(t) THEN Len(after) = Len(books) ELSE after = books
    /\ \A t \in Tokens :
           AdminCredential(t) \/ DeleteAllRoute(books, t).books = books
    /\ \A t \in Tokens, p \in PathIds :
           AdminCredential(t) \/ DeleteOneRoute(books, t, p).books = books

(* C5 as stated: a write or delete request without Authorization header   *)
(* is answered 401, a delete request whose header is present but is not    *)
(* 'Bearer admin-token' is answered 403, the Store unchanged in both       *)
(* cases; so the Store changes only for a request with a credential and    *)
(* Books are removed only with the admin credential.                       *)
C5_GuardsAsStated ==
    /\ WritesAnswer401(Undefined) /\ DeletesAnswer(Undefined, 401)
    /\ \A t \in Tokens :
           (t # Undefined /\ t # JStr(AdminToken)) => DeletesAnswer(t, 403)
    /\ OnlyCredentialsChangeStore

(* C5 as amended: 401 also when the header is present but empty, 403 for a *)
(* delete whose header is not empty and is not 'Bearer admin-token'.       *)
C5_Guards ==
    /\ \A t \in {Undefined, JStr(<<>>)} :
           WritesAnswer401(t) /\ DeletesAnswer(t, 401)
    /\ \A t \in Tokens :
           (Credential(t) /\ t # JStr(AdminToken)) => DeletesAnswer(t, 403)
    /\ OnlyCredentialsChangeStore

\* A delete was refused for want of the admin credential
C5_Witness == res = JsonError(403, "Forbidden. Admin access required.")

(* C6: for one client and any mix of book routes, a request that is one of *)
(* the first 15 of the client's window is passed on to its route; the 16th *)
(* and every later request of the window is answered with the rate-limit   *)
(* error and the Store is untouched; when the window has elapsed the count *)
(* starts again at 0, so the client's next request is passed on.           *)
C6_FifteenPerWindow ==
    [][\A c \in Clients :
          RequestBy(c) =>
              IF hits[c] < 15
              THEN res' # TooManyRequests
              ELSE res' = TooManyRequests /\ books' = books]_vars

\* The 17th request of a window was refused
C6_Witness == \E c \in Clients : hits[c] = 17 /\ res = TooManyRequests

(* C7: after a successful DELETE /api/books/reset (204) the Store is empty *)
(* and a GET /api/books that follows returns an empty array, for every     *)
(* page and limit; from every reachable Store.                             *)
C7_ResetEmpties ==
    \A t \in Tokens :
        LET out == DeleteAllRoute(books, t)
        IN out.res.status = 204 =>
               /\ out.res = SendEmpty(204)
               /\ out.books = <<>>
               /\ \A p \in Pages, l \in Limits :
                      GetBooks(out.books, p, l) = Outcome(<<>>, JsonArray(200, <<>>))

\* The list of the emptied Store was asked for
C7_Witness == books = <<>> /\ res = JsonArray(200, <<>>)

(* C8: an authenticated create whose body has an id field is answered 400, *)
(* for every value of the id and whatever title and author come with it,   *)
(* and the Store is left unchanged.                                        *)
C8_IdIs400 ==
    \A t \in Tokens, b \in Bodies :
        (Truthy(t) /\ b.id # Undefined) =>
            LET out == CreateRoute(books, t, b)
            IN out.res.status = 400 /\ out.books = books

\* A value that is given and not empty
Given(v) == v \notin {Undefined, JStr(<<>>), JNum(0), NaN}

(* C9: a successful update (200) replaces the title, respectively the      *)
(* author, of the addressed Book exactly when the body gives a non-empty   *)
(* value for it; the Book's id and position and every other Book are       *)
(* unchanged.                                                              *)
C9_UpdateFrame ==
    \A t \in Tokens, p \in PathIds, b \in Bodies :
        LET out == UpdateRoute(books, t, p, b)
        IN out.res.status = 200 =>
               /\ Len(out.books) = Len(books)
               /\ \E i \in 1..Len(books) :
                      /\ JNum(books[i].id) = PathId(p)
                      /\ \A j \in 1..(i - 1) : JNum(books[j].id) # PathId(p)
                      /\ \A j \in 1..Len(books) : j # i => out.books[j] = books[j]
                      /\ out.books[i].id = books[i].id
                      /\ out.books[i].title =
                             IF Given(b.title) THEN b.title ELSE books[i].title
                      /\ out.books[i].author =
                             IF Given(b.author) THEN b.author ELSE books[i].author
                      /\ out.res.body = <<out.books[i]>>

\* The first initial book after an update with an empty title: the title
\* is the old one, the author the new one
C9_Witness ==
    /\ res.status = 200 /\ res.kind = "object"
    /\ res.body[1] = Book(1, JStr(S1984), JStr(tolkienLc))
    /\ books # <<>> /\ books[1] = res.body[1]

(* C10: an authenticated update whose body carries an id different from    *)
(* the path id is answered 400 with the Store unchanged, an update whose   *)
(* body id is absent or equal to the path id is not rejected for its id,   *)
(* and no update changes the id of a Book.                                 *)
C10_IdImmutable ==
    \A t \in Tokens, p \in PathIds, b \in Bodies :
        Truthy(t) =>
            LET out == UpdateRoute(books, t, p, b)
            IN /\ (b.id # Undefined /\ b.id # PathId(p))
                      => (out.res.status = 400 /\ out.books = books)
               /\ (b.id = Undefined \/ b.id = PathId(p)) => out.res.status # 400
               /\ Len(out.books) = Len(books)
               /\ \A i \in 1..Len(books) : out.books[i].id = books[i].id

(* C11: after a DELETE /api/books/:id that is answered 204 the Store holds *)
(* no Book with that id, and a GET /api/books/:id for the same id that     *)
(* follows is answered 404; from every reachable Store.                    *)
C11_DeletedIsGone ==
    \A p \in PathIds :
        LET out == DeleteOneRoute(books, JStr(AdminToken), p)
        IN out.res.status = 204 =>
               /\ \A i \in 1..Len(out.books) : JNum(out.books[i].id) # PathId(p)
               /\ GetBook(out.books, p).res.status = 404

\* The value x is a string that contains the string y, up to case
ContainsIgnoringCase(x, y) ==
    /\ x.type = "string" /\ y.type = "string"
    /\ includes(toLowerCase(x.chars), toLowerCase(y.chars))

(* C12: a search with neither title nor author given (absent or empty) is  *)
(* answered 400; any other search is answered 200 with exactly the Books,  *)
(* in Store order, whose title contains the given title and whose author   *)
(* contains the given author up to case (a field not given matches every   *)
(* Book), or 404 when there is no such Book.                               *)
C12_SearchResult ==
    \A t \in Queries, a \in Queries :
        LET out == SearchBooks(books, t, a)
            Wanted(b) ==
                /\ Given(t) => ContainsIgnoringCase(b.title, t)
                /\ Given(a) => ContainsIgnoringCase(b.author, a)
            found == SelectSeq(books, Wanted)
        IN /\ out.books = books
           /\ IF ~Given(t) /\ ~Given(a) THEN out.res.status = 400
              ELSE IF found = <<>> THEN out.res.status = 404
              ELSE out.res = JsonArray(200, found)

(* C13: every request to a book route that the limiter lets through is     *)
(* answered with one of the statuses the interface lists for its route: in *)
(* particular a create with a credential only with 201, 400 or 409 for     *)
(* every JSON body, and a search only with 200, 400 or 404 for every       *)
(* query; no route answers 500 unless its handler throws.                  *)
C13_ListedStatuses ==
    /\ \A p \in Pages, l \in Limits : GetBooks(books, p, l).res.status = 200
    /\ \A t \in Queries, a \in Queries :
           SearchBooks(books, t, a).res.status \in {200, 400, 404}
    /\ \A p \in PathIds : GetBook(books, p).res.status \in {200, 404}
    /\ \A t \in Tokens, b \in Bodies :
           CreateRoute(books, t, b).res.status
               \in (IF Credential(t) THEN {201, 400, 409} ELSE {401})
    /\ \A t \in Tokens, p \in PathIds, b \in Bodies :
           UpdateRoute(books, t, p, b).res.status \in {200, 400, 404, 401}
    /\ \A t \in Tokens : DeleteAllRoute(books, t).res.status \in {204, 401, 403}
    /\ \A t \in Tokens, p \in PathIds :
           DeleteOneRoute(books, t, p).res.status \in {204, 404, 401, 403}

(* C14: a create that is answered 201 gives the new Book the id (number of *)
(* Books in the Store before it) + 1 and the title and author of the body, *)
(* appends it as the last element of the Store, returns it, and leaves     *)
(* every Book stored before, and their order, unchanged.                   *)
C14_CreateAppends ==
    \A t \in Tokens, b \in Bodies :
        LET out == CreateRoute(books, t, b)
            newBook == Book(Len(books) + 1, b.title, b.author)
        IN out.res.status = 201 =>
               /\ Len(out.books) = Len(books) + 1
               /\ SubSeq(out.books, 1, Len(books)) = books
               /\ out.books[Len(out.books)] = newBook
               /\ out.res = JsonBook(201, newBook)

\* A create was answered 201 with the Book that is now the last of the Store
C14_Witness ==
    /\ res.status = 201 /\ res.kind = "object"
    /\ books # <<>> /\ books[Len(books)] = res.body[1]
    /\ res.body[1].id = Len(books)

\* Every route, with every input, gives the request of client c this outcome
EveryRouteGives(c, out) ==
    /\ \A p \in Pages, l \in Limits : limiterOutcome(c, GetBooks(books, p, l)) = out
    /\ \A t \in Queries, a \in Queries :
           limiterOutcome(c, SearchBooks(books, t, a)) = out
    /\ \A p \in PathIds : limiterOutcome(c, GetBook(books, p)) = out
    /\ \A t \in Tokens, b \in Bodies :
           limiterOutcome(c, CreateRoute(books, t, b)) = out
    /\ \A t \in Tokens, p \in PathIds, b \in Bodies :
           limiterOutcome(c, UpdateRoute(books, t, p, b)) = out
    /\ \A t \in Tokens : limiterOutcome(c, DeleteAllRoute(books, t)) = out
    /\ \A t \in Tokens, p \in PathIds :
           limiterOutcome(c, DeleteOneRoute(books, t, p)) = out

\* The write and delete routes give the request of client c, sent with the
\* token t, this outcome for every body and every path id
WritesAndDeletesGive(c, t, out) ==
    /\ \A b \in Bodies : limiterOutcome(c, CreateRoute(books, t, b)) = out
    /\ \A p \in PathIds, b \in Bodies :
           limiterOutcome(c, UpdateRoute(books, t, p, b)) = out
    /\ limiterOutcome(c, DeleteAllRoute(books, t)) = out
    /\ \A p \in PathIds : limiterOutcome(c, DeleteOneRoute(books, t, p)) = out

\* The delete routes give the request of client c, sent with the token t,
\* this outcome for every path id
DeletesGive(c, t, out) ==
    /\ limiterOutcome(c, DeleteAllRoute(books, t)) = out
    /\ \A p \in PathIds : limiterOutcome(c, DeleteOneRoute(books, t, p)) = out

(* C15: the limiter runs before requireAuth, requireAuth before            *)
(* requireAdmin, and the guards before the handler's own tests: a request  *)
(* over the client's quota is answered with the rate-limit error whatever  *)
(* its route, credentials, path id and body; within the quota a write or   *)
(* delete request without credential is answered 401 whatever its body and *)
(* path id, and a delete with a credential that is not the admin's is      *)
(* answered 403 whatever its path id; the Store is unchanged in all three. *)
C15_GuardOrder ==
    \A c \in Clients :
        IF OverLimit(c)
        THEN EveryRouteGives(c, Outcome(books, TooManyRequests))
        ELSE /\ \A t \in {Undefined, JStr(<<>>)} :
                    WritesAndDeletesGive(c, t,
                        Outcome(books, JsonError(401, "Unauthorized. No token provided.")))
             /\ \A t \in Tokens :
                    (Credential(t) /\ ~AdminCredential(t)) =>
                        DeletesGive(c, t,
                            Outcome(books, JsonError(403, "Forbidden. Admin access required.")))

\* One client is over its quota while the other, within its quota, was
\* answered 401
C15_Witness ==
    /\ hits["A"] > max /\ hits["B"] \in 1..max
    /\ res = JsonError(401, "Unauthorized. No token provided.")

(* C16: the windows of distinct clients are independent.  In every         *)
(* interleaving of the requests and window ends of two clients, a request  *)
(* of client c is answered with the rate-limit error exactly when c itself *)
(* has sent 15 or more requests in its current window, whatever the other  *)
(* client has sent; and a request or a window end of c leaves the count of *)
(* the other client as it was.                                             *)
C16_IndependentWindows ==
    [][\A c \in Clients :
          /\ RequestBy(c) => (res' = TooManyRequests <=> hits[c] >= max)
          /\ hits'[c] # hits[c] =>
                 \A d \in Clients \ {c} : hits'[d] = hits[d]]_vars

\* Client B has used up its quota and more, and the first request of
\* client A in its window was served after that
C16_Witness ==
    /\ hits["B"] = 17 /\ hits["A"] = 1
    /\ res.status = 200

\* The Books at the Store positions lo .. hi (1-based), in Store order
BooksAt(lo, hi) ==
    LET first == IF lo < 1 THEN 1 ELSE lo
        last == IF hi > Len(books) THEN Len(books) ELSE hi
    IN IF first > last THEN <<>> ELSE SubSeq(books, first, last)

(* C17: GET /api/books with integer page p and limit l (1 and 10 when      *)
(* absent) is answered 200 with exactly the Books at the Store positions   *)
(* (p-1)*l+1 .. p*l, in Store order, fewer or none when the Store is       *)
(* shorter; so also for p < 1 or l < 1 the result holds no Book outside    *)
(* those positions.                                                        *)
C17_Pagination ==
    \A p \in Pages, l \in Limits :
        LET page == parseInt(Or(p, JStr(<<"1">>)))
            limit == parseInt(Or(l, JStr(<<"1","0">>)))
        IN (page.type = "number" /\ limit.type = "number") =>
               GetBooks(books, p, l) =
                   Outcome(books,
                           JsonArray(200, BooksAt((page.num - 1) * limit.num + 1,
                                                  page.num * limit.num)))

(* C18: in every reachable state of the Store, after any sequence of       *)
(* create, update and delete requests, no two Books have the same title    *)
(* and the same author up to case.                                         *)
C18_NoDuplicates ==
    \A i, j \in 1..Len(books) :
        i # j => ~ /\ SameIgnoringCase(books[i].title, books[j].title)
                   /\ SameIgnoringCase(books[i].author, books[j].author)

\* The statuses that report an error
ErrorStatuses == {400, 401, 403, 404, 409, 429, 500}

\* The outcome leaves the Store exactly as it is
LeavesStore(out) == out.books = books

\* The outcome leaves the Store as it is if it is an error
ErrorLeavesStore(out) == out.res.status \in ErrorStatuses => LeavesStore(out)

(* C19: every request that is answered with an error status (400, 401,     *)
(* 403, 404, 409, the rate-limit status 429 or 500) and every GET request  *)
(* (list, search, get by id), whatever its answer, leaves the Store        *)
(* exactly as it was: the same Books with the same fields in the same      *)
(* order.                                                                  *)
C19_ErrorsAndReadsKeepStore ==
    \A c \in Clients :
        /\ \A p \in Pages, l \in Limits :
               LeavesStore(limiterOutcome(c, GetBooks(books, p, l)))
        /\ \A t \in Queries, a \in Queries :
               LeavesStore(limiterOutcome(c, SearchBooks(books, t, a)))
        /\ \A p \in PathIds : LeavesStore(limiterOutcome(c, GetBook(books, p)))
        /\ \A t \in Tokens, b \in Bodies :
               ErrorLeavesStore(limiterOutcome(c, CreateRoute(books, t, b)))
        /\ \A t \in Tokens, p \in PathIds, b \in Bodies :
               ErrorLeavesStore(limiterOutcome(c, UpdateRoute(books, t, p, b)))
        /\ \A t \in Tokens :
               ErrorLeavesStore(limiterOutcome(c, DeleteAllRoute(books, t)))
        /\ \A t \in Tokens, p \in PathIds :
               ErrorLeavesStore(limiterOutcome(c, DeleteOneRoute(books, t, p)))

\* A request was answered 500 because a stored title is a number, and the
\* Store still holds that Book
C19_Witness ==
    /\ res = JsonError(500, "Something went wrong on the server.")
    /\ \E i \in 1..Len(books) : books[i].title.type = "number"

=============================================================================
